---- MODULE Spec2Model ----
(***************************************************************************)
(* A model of codegrep's indexer (src/src/indexer.rs, src/src/utils.rs):   *)
(* the directory walk with its filter, the per-file extraction of function *)
(* definitions and imports, and the lookup protocol iter_fn_content.       *)
(*                                                                         *)
(* Text is modelled at the level of chunks: a string is a sequence of      *)
(* chunks, a chunk being a maximal run of word characters (\w), a run of   *)
(* whitespace (" " one character, "  " two, "\n" a line break) or a single *)
(* punctuation character.  File names, source lines, identifiers and       *)
(* module paths are all such sequences; a path is a sequence of names.     *)
(***************************************************************************)
EXTENDS Naturals, Sequences, FiniteSets, TLC

(* ------------------------------ bounds -------------------------------- *)

\* The longest file, in lines.
MaxLines == 2

\* How many times the file system changes under the indexer.
MaxFsChanges == 1

(* ------------------------------ strings ------------------------------- *)

Keywords == {"const", "let", "var"}

\* The word chunks of the model's alphabet.  No word holds a keyword as a
\* proper part, so a keyword is matched only as a chunk of its own.
Words == Keywords \cup {"function", "require", "foo", "bar", "a", "b", "d", "e",
                        "m", "js", "txt", "proj", "latest", "tests", "hid",
                        "node_modules"}

Spaces == {" ", "  ", "\n"}

IsWord(t) == t \in Words

IsSpace(t) == t \in Spaces

\* The number of characters of a whitespace chunk.
SpaceLen(t) == IF t = "  " THEN 2 ELSE 1

\* The word chunks that hold `s` as a substring.  The strings the code
\* searches for are runs of word characters, so a hit lies inside one chunk.
WordsContaining(s) ==
    CASE s = "test" -> {"latest", "tests"}
      [] s = "node_modules" -> {"node_modules"}
      [] OTHER -> {}

\* str::contains
Contains(name, s) == \E i \in 1..Len(name) : name[i] \in WordsContaining(s)

\* str::ends_with(".js")
EndsWithDotJs(name) ==
    /\ Len(name) >= 2
    /\ name[Len(name)] = "js"
    /\ name[Len(name) - 1] = "."

\* str::starts_with(".")
StartsWithDot(name) == Len(name) >= 1 /\ name[1] = "."

\* str::trim
RECURSIVE TrimStart(_)
TrimStart(s) ==
    IF s # <<>> /\ IsSpace(Head(s)) THEN TrimStart(Tail(s)) ELSE s

RECURSIVE TrimEnd(_)
TrimEnd(s) ==
    IF s # <<>> /\ IsSpace(s[Len(s)]) THEN TrimEnd(SubSeq(s, 1, Len(s) - 1)) ELSE s

Trim(s) == TrimEnd(TrimStart(s))

\* [String]::join("\n")
RECURSIVE JoinLines(_)
JoinLines(ls) ==
    IF ls = <<>> THEN <<>>
    ELSE IF Len(ls) = 1 THEN ls[1]
    ELSE ls[1] \o <<"\n">> \o JoinLines(Tail(ls))

\* str::split(sep): the pieces of s between the chunks equal to sep.
RECURSIVE SplitOn(_, _)
SplitOn(s, sep) ==
    IF \A i \in 1..Len(s) : s[i] # sep THEN <<s>>
    ELSE LET k == CHOOSE i \in 1..Len(s) : s[i] = sep /\ \A j \in 1..(i - 1) : s[j] # sep
         IN  <<SubSeq(s, 1, k - 1)>> \o SplitOn(SubSeq(s, k + 1, Len(s)), sep)

\* A value named once and used many times.
Bind(v, F(_)) == F(v)

\* HashMap::insert
Insert(map, k, v) == [x \in DOMAIN map \cup {k} |-> IF x = k THEN v ELSE map[x]]

EmptyMap == [x \in {} |-> 0]

(* ---------------------------- file system ----------------------------- *)

ProjName == <<"proj">>

\* Indexer.project_dir: /proj
ProjectDir == <<ProjName>>

FileA == <<ProjName, <<"a", ".", "js">>>>
FileB == <<ProjName, <<"b", ".", "js">>>>
FileLatest == <<ProjName, <<"latest", ".", "js">>>>
FileInTests == <<ProjName, <<"tests">>, <<"d", ".", "js">>>>
FileInDotDir == <<ProjName, <<".", "hid">>, <<"e", ".", "js">>>>
FileInNodeModules == <<ProjName, <<"node_modules">>, <<"m", ".", "js">>>>
FileDot == <<ProjName, <<".", "a", ".", "js">>>>
FileTxt == <<ProjName, <<"a", ".", "txt">>>>

\* Every file the model's file system can hold.
FileUniverse ==
    {FileA, FileB, FileLatest, FileInTests, FileInDotDir, FileInNodeModules,
     FileDot, FileTxt}

\* Source lines, as written in the files (untrimmed).
LineFoo == <<"function", " ", "foo", "(", ")">>
LineBar == <<"  ", "const", " ", "bar", " ", "=", " ", "(", ")", " ">>
LineImportB ==
    <<"const", " ", "{", " ", "foo", ",", " ", "bar", " ", "}", " ", "=", " ",
      "require", "(", "'", ".", "/", "b", "'", ")">>
LineImportLatest ==
    <<"let", " ", "foo", " ", "=", " ", "require", "(", "\"", ".", "/", "latest", "\"", ")">>
LineBrace == <<"}">>

LineSet == {LineFoo, LineBar, LineImportB, LineImportLatest, LineBrace}

\* The contents a file can start with: up to MaxLines lines.
Contents == UNION {[1..n -> LineSet] : n \in 0..MaxLines}

\* What the environment writes when it creates or rewrites a file.
WrittenContent == <<LineBrace>>

\* What b.js and latest.js hold at the start.
LibContent == <<LineBrace, LineFoo>>

NoFile == [present |-> FALSE, lines |-> <<>>, readable |-> TRUE]

File(lines) == [present |-> TRUE, lines |-> lines, readable |-> TRUE]

VARIABLES
    fs,          \* the files on disk: FileUniverse -> file record
    rootPresent, \* whether /proj exists
    fsChanges,   \* how many times the file system has changed
    catalog,     \* Indexer.index: path -> Index
    proc,        \* "running", "exited" (process::exit) or "panicked"
    last,        \* the kind of the last step: "init", "index", "query", "env"
    req,         \* the arguments of the last iter_fn_content call
    ret,         \* what the last call returned
    emitted,     \* the log entries the last call emitted
    pass         \* the last index() call's traversal: files stored, file failed

vars == <<fs, rootPresent, fsChanges, catalog, proc, last, req, ret, emitted, pass>>

Present == {p \in FileUniverse : fs[p].present}

\* The directories on disk: / and, under an existing /proj, every
\* directory that holds a file.
IsDir(fsys, root, path) ==
    \/ path = <<>>
    \/ root /\ path = ProjectDir
    \/ \E p \in FileUniverse :
          /\ fsys[p].present
          /\ Len(path) < Len(p)
          /\ SubSeq(p, 1, Len(path)) = path

IsFile(fsys, path) == path \in FileUniverse /\ fsys[path].present

\* utils::path_exists
PathExists(fsys, root, path) == IsDir(fsys, root, path) \/ IsFile(fsys, path)

(* ------------------------- pattern matchers --------------------------- *)

\* The chunk at position i, or "" (no chunk) past the end.
At(s, i) == IF i >= 1 /\ i <= Len(s) THEN s[i] ELSE ""

\* \s* : the first position from i on that holds no whitespace.
RECURSIVE SkipSpaces(_, _)
SkipSpaces(s, i) == IF IsSpace(At(s, i)) THEN SkipSpaces(s, i + 1) ELSE i

\* The characters of the whitespace run that starts at i.
RECURSIVE SpaceChars(_, _)
SpaceChars(s, i) ==
    IF IsSpace(At(s, i)) THEN SpaceLen(s[i]) + SpaceChars(s, i + 1) ELSE 0

NoCapture == [ok |-> FALSE, name |-> <<>>]

Capture(name) == [ok |-> TRUE, name |-> name]

\* (\w*) at position i: the word there, or the empty string.
WordAt(s, i) == IF IsWord(At(s, i)) THEN <<s[i]>> ELSE <<>>

\* Indexer.fre  ^\s*function\s+(\w*)\s*\(   -- the capture of group 1.
FreCaptures(line) ==
    Bind(SkipSpaces(line, 1), LAMBDA i1 :
    Bind(SkipSpaces(line, i1 + 1), LAMBDA i2 :
    Bind(WordAt(line, i2), LAMBDA name :
        IF /\ At(line, i1) = "function"
           /\ i2 > i1 + 1
           /\ At(line, SkipSpaces(line, i2 + Len(name))) = "("
        THEN Capture(name)
        ELSE NoCapture)))

\* Indexer.afre  ^\s*(const|let|var)\s+(\w*)\s+=\s+\(   -- the capture of
\* group 2.  With an empty group 2 the two \s+ share one whitespace run,
\* which then needs two characters.
AfreCaptures(line) ==
    Bind(SkipSpaces(line, 1), LAMBDA i1 :
    Bind(SkipSpaces(line, i1 + 1), LAMBDA i2 :
    Bind(WordAt(line, i2), LAMBDA name :
    Bind(SkipSpaces(line, i2 + Len(name)), LAMBDA i4 :
    Bind(SkipSpaces(line, i4 + 1), LAMBDA i5 :
        IF /\ At(line, i1) \in Keywords
           /\ i2 > i1 + 1
           /\ IF name = <<>> THEN SpaceChars(line, i1 + 1) >= 2 ELSE i4 > i2 + 1
           /\ At(line, i4) = "="
           /\ i5 > i4 + 1
           /\ At(line, i5) = "("
        THEN Capture(name)
        ELSE NoCapture)))))

\* [\s\w,]+ : the first position from i on outside the class.
RECURSIVE NamesEnd(_, _)
NamesEnd(s, i) ==
    IF IsSpace(At(s, i)) \/ IsWord(At(s, i)) \/ At(s, i) = ","
    THEN NamesEnd(s, i + 1) ELSE i

\* [\w\.\/]+ : the first position from i on outside the class.
RECURSIVE JumpEnd(_, _)
JumpEnd(s, i) ==
    IF IsWord(At(s, i)) \/ At(s, i) \in {".", "/"} THEN JumpEnd(s, i + 1) ELSE i

Quotes == {"'", "\""}

\* Indexer.ifre
\*   (const|let|var)\s*\{?([\s\w,]+)\}?\s*=\s*require\(['"]([\w\.\/]+)['"]\)
\* tried at position i: groups 2 and 3 and the position after the match.
\* Group 2 is taken from the keyword on when no brace opens it; the
\* whitespace this adds in front is trimmed off the first name by the caller.
IfreMatchAt(s, i) ==
    Bind(SkipSpaces(s, i + 1), LAMBDA j1 :
    Bind(IF At(s, j1) = "{" THEN j1 + 1 ELSE i + 1, LAMBDA n0 :
    Bind(NamesEnd(s, n0), LAMBDA n1 :
    Bind(SkipSpaces(s, IF At(s, n1) = "}" THEN n1 + 1 ELSE n1), LAMBDA k2 :
    Bind(SkipSpaces(s, k2 + 1), LAMBDA k3 :
    Bind(JumpEnd(s, k3 + 3), LAMBDA p1 :
        IF /\ At(s, i) \in Keywords
           /\ n1 > n0
           /\ At(s, k2) = "="
           /\ At(s, k3) = "require"
           /\ At(s, k3 + 1) = "("
           /\ At(s, k3 + 2) \in Quotes
           /\ p1 > k3 + 3
           /\ At(s, p1) \in Quotes
           /\ At(s, p1 + 1) = ")"
        THEN [ok |-> TRUE, names |-> SubSeq(s, n0, n1 - 1),
              jump |-> SubSeq(s, k3 + 3, p1 - 1), end |-> p1 + 2]
        ELSE [ok |-> FALSE, names |-> <<>>, jump |-> <<>>, end |-> i + 1]))))))

\* Regex::captures_iter: the leftmost matches from position i on, none
\* overlapping another.
RECURSIVE IfreCapturesIter(_, _)
IfreCapturesIter(s, i) ==
    IF i > Len(s) THEN <<>>
    ELSE Bind(IfreMatchAt(s, i), LAMBDA m :
             IF m.ok THEN <<m>> \o IfreCapturesIter(s, m.end)
             ELSE IfreCapturesIter(s, i + 1))

(* ------------------------------- paths -------------------------------- *)

NoPath == [ok |-> FALSE, path |-> <<>>]

SomePath(p) == [ok |-> TRUE, path |-> p]

\* Path::parent
Parent(path) == IF path = <<>> THEN <<>> ELSE SubSeq(path, 1, Len(path) - 1)

\* fs::canonicalize of the components comps taken from directory cur: "."
\* stays, ".." goes up, anything else must exist on disk, and every
\* component is looked up in a directory.  NoPath when the path does not
\* exist.
RECURSIVE Canonicalize(_, _, _, _)
Canonicalize(fsys, root, cur, comps) ==
    IF comps = <<>>
    THEN IF PathExists(fsys, root, cur) THEN SomePath(cur) ELSE NoPath
    ELSE LET c == Head(comps)
         IN  IF c = <<>> THEN Canonicalize(fsys, root, cur, Tail(comps))
             ELSE IF ~IsDir(fsys, root, cur) THEN NoPath
             ELSE IF c = <<".">> THEN Canonicalize(fsys, root, cur, Tail(comps))
             ELSE IF c = <<".", ".">>
                  THEN Canonicalize(fsys, root, Parent(cur), Tail(comps))
             ELSE Canonicalize(fsys, root, Append(cur, c), Tail(comps))

\* Path::new(file_path).parent().unwrap().join(format!("{}.js", import_path))
\*     .canonicalize()
\* A module path that starts with "/" replaces the directory it is joined to.
ResolveImport(fsys, root, file_path, import_path) ==
    LET jump == import_path \o <<".", "js">>
        base == IF Head(jump) = "/" THEN <<>> ELSE Parent(file_path)
    IN  Canonicalize(fsys, root, base, SplitOn(jump, "/"))

(* -------------------------------- walk -------------------------------- *)

\* is_hidden with the "test" rule applied to directories as well.
IsHiddenTestDirs(name, isFile) ==
    \/ Contains(name, "node_modules")
    \/ Contains(name, "test")
    \/ isFile /\ (~EndsWithDotJs(name) \/ StartsWithDot(name))

\* is_hidden: the entry's name, and whether the entry is a file.
IsHidden(name, isFile) ==
    \/ Contains(name, "node_modules")
    \/ /\ isFile
       /\ ~EndsWithDotJs(name) \/ StartsWithDot(name) \/ Contains(name, "test")

\* The files WalkDir yields through filter_entry and the is_file filter:
\* those with no hidden entry on the way from the root entry (the project
\* directory itself, depth 0) down to the file.
Walked(fsys) ==
    {p \in FileUniverse :
        /\ fsys[p].present
        /\ \A i \in 1..Len(p) : ~IsHidden(p[i], i = Len(p))}

\* The orders a depth-first walk can yield the files in: directory order is
\* the file system's, so any order in which the files under each directory
\* are yielded together.
WalkOrders(fsys) ==
    LET files == Walked(fsys)
        n == Cardinality(files)
        under(q, d) == Len(q) > Len(d) /\ SubSeq(q, 1, Len(d)) = d
    IN  {s \in [1..n -> files] :
            /\ \A i, j \in 1..n : i # j => s[i] # s[j]
            /\ \A i, k \in 1..n : \A m \in 1..(Len(s[i]) - 1) :
                 LET d == SubSeq(s[i], 1, m)
                 IN  (i < k /\ under(s[k], d)) => \A j \in i..k : under(s[j], d)}

(* ------------------------------ indexing ------------------------------ *)

\* struct Index
NewIndex(content) ==
    [content |-> content, fn_offsets |-> EmptyMap, fn_imports |-> EmptyMap]

\* fs::read_to_string(file_path)?.lines().map(|s| s.trim().to_string())
TrimmedLines(lines) == [i \in 1..Len(lines) |-> Trim(lines[i])]

\* Indexer::store_content with the old record's function offsets kept.
StoreContentKeepingOffsets(cat, fsys, file_path) ==
    IF ~(IsFile(fsys, file_path) /\ fsys[file_path].readable)
    THEN [ok |-> FALSE, cat |-> cat, cause |-> "permission denied"]
    ELSE [ok |-> TRUE, cause |-> "",
          cat |-> Insert(cat, file_path,
                    [NewIndex(TrimmedLines(fsys[file_path].lines)) EXCEPT
                       !.fn_offsets = IF file_path \in DOMAIN cat
                                      THEN cat[file_path].fn_offsets
                                      ELSE EmptyMap])]

\* Indexer::store_content: the file's lines, trimmed, under a fresh record;
\* a file that cannot be read is an error and leaves the catalog alone.
StoreContent(cat, fsys, file_path) ==
    IF ~(IsFile(fsys, file_path) /\ fsys[file_path].readable)
    THEN [ok |-> FALSE, cat |-> cat, cause |-> "permission denied"]
    ELSE [ok |-> TRUE, cause |-> "",
          cat |-> Insert(cat, file_path, NewIndex(TrimmedLines(fsys[file_path].lines)))]

\* The definition a line registers: the function pattern's capture, else the
\* assignment pattern's.
DefinedName(line) ==
    Bind(FreCaptures(line), LAMBDA cap : IF cap.ok THEN cap ELSE AfreCaptures(line))

\* Indexer::find_funcs, lines i.. of content: (name, zero-based line).
RECURSIVE FindFuncsFrom(_, _)
FindFuncsFrom(content, i) ==
    IF i > Len(content) THEN <<>>
    ELSE Bind(DefinedName(content[i]), LAMBDA cap :
             (IF cap.ok THEN <<[name |-> cap.name, pos |-> i - 1]>> ELSE <<>>)
             \o FindFuncsFrom(content, i + 1))

FindFuncs(content) == FindFuncsFrom(content, 1)

\* The loop over funcs with the first offset of a name kept.
RECURSIVE InsertOffsetsFirstWins(_, _)
InsertOffsetsFirstWins(offsets, funcs) ==
    IF funcs = <<>> THEN offsets
    ELSE InsertOffsetsFirstWins(
             IF Head(funcs).name \in DOMAIN offsets THEN offsets
             ELSE Insert(offsets, Head(funcs).name, Head(funcs).pos),
             Tail(funcs))

\* index_file's loop over funcs: f.fn_offsets.insert(func_name, pos).
RECURSIVE InsertOffsets(_, _)
InsertOffsets(offsets, funcs) ==
    IF funcs = <<>> THEN offsets
    ELSE InsertOffsets(Insert(offsets, Head(funcs).name, Head(funcs).pos), Tail(funcs))

\* cap[2].split(',') with each name trimmed, paired with cap[3].
NamesOf(m) ==
    LET pieces == SplitOn(m.names, ",")
    IN  [i \in 1..Len(pieces) |-> [name |-> Trim(pieces[i]), jump |-> m.jump]]

RECURSIVE Flatten(_)
Flatten(ss) == IF ss = <<>> THEN <<>> ELSE Head(ss) \o Flatten(Tail(ss))

\* Indexer::find_fn_imports: (name, module path) for every name of every
\* match in the joined content.
FindFnImports(content) ==
    LET ms == IfreCapturesIter(JoinLines(content), 1)
    IN  Flatten([i \in 1..Len(ms) |-> NamesOf(ms[i])])

\* index_file's loop over imports: the module path resolved against the
\* importing file's directory; canonicalize().unwrap() panics on a path that
\* does not exist.
RECURSIVE InsertImports(_, _, _, _, _)
InsertImports(imports, fsys, root, file_path, pairs) ==
    IF pairs = <<>> THEN [ok |-> TRUE, imports |-> imports]
    ELSE Bind(ResolveImport(fsys, root, file_path, Head(pairs).jump), LAMBDA r :
             IF ~r.ok THEN [ok |-> FALSE, imports |-> imports]
             ELSE InsertImports(Insert(imports, Head(pairs).name, r.path),
                                fsys, root, file_path, Tail(pairs)))

\* Indexer::index_file.  status: "ok", "err" (the Err it returns, with its
\* cause) or "panic".  find_funcs finds the content store_content has just
\* stored, and so does find_fn_imports after it, whose process::exit is
\* never reached.
IndexFile(cat, fsys, root, file_path) ==
    Bind(StoreContent(cat, fsys, file_path), LAMBDA stored :
        IF ~stored.ok THEN [status |-> "err", cat |-> cat, cause |-> stored.cause]
        ELSE IF file_path \notin DOMAIN stored.cat
        THEN [status |-> "err", cat |-> stored.cat, cause |-> "content not found"]
        ELSE
        Bind(stored.cat[file_path], LAMBDA idx :
        Bind(InsertImports(idx.fn_imports, fsys, root, file_path,
                           FindFnImports(idx.content)), LAMBDA imp :
            [status |-> IF imp.ok THEN "ok" ELSE "panic",
             cat |-> Insert(stored.cat, file_path,
                       [idx EXCEPT
                          !.fn_offsets = InsertOffsets(idx.fn_offsets, FindFuncs(idx.content)),
                          !.fn_imports = imp.imports]),
             cause |-> ""])))

\* What the loop of Indexer::index does with one walked file:
\* file.path().canonicalize().unwrap(), then index_file.  index_file reads
\* and writes the record of its own file only (store_content inserts it, the
\* two loops fill it through entry(file_path)), so what it does with a file
\* is the same wherever the file comes in the walk.
Indexed(cat, fsys, root) ==
    [file \in Walked(fsys) |->
        Bind(Canonicalize(fsys, root, <<>>, file), LAMBDA c :
            IF ~c.ok
            THEN [status |-> "panic", cat |-> cat, cause |-> "", path |-> file]
            ELSE Bind(IndexFile(cat, fsys, root, c.path), LAMBDA r :
                     [status |-> r.status, cat |-> r.cat, cause |-> r.cause,
                      path |-> c.path]))]

\* The loop of Indexer::index over the walked files, from the i-th on; the
\* first file index_file fails on ends it.
RECURSIVE IndexFiles(_, _, _, _)
IndexFiles(cat, indexed, order, i) ==
    IF i > Len(order)
    THEN [status |-> "ok", cat |-> cat, cause |-> "",
          stored |-> {order[j] : j \in 1..(i - 1)}, failed |-> {}]
    ELSE Bind(indexed[order[i]], LAMBDA r :
         Bind(IF r.path \in DOMAIN r.cat THEN Insert(cat, r.path, r.cat[r.path]) ELSE cat,
              LAMBDA after :
                  IF r.status = "ok"
                  THEN IndexFiles(after, indexed, order, i + 1)
                  ELSE [status |-> r.status, cat |-> after, cause |-> r.cause,
                        stored |-> {order[j] : j \in 1..(i - 1)},
                        failed |-> {order[i]}]))

(* ------------------------------- lookup ------------------------------- *)

None == [some |-> FALSE, v |-> <<>>]

Some(v) == [some |-> TRUE, v |-> v]

NoRet ==
    [kind |-> "none", text |-> "", paths |-> {}, cause |-> "",
     some |-> FALSE, items |-> <<>>]

\* Ok(())
Ok == [NoRet EXCEPT !.kind = "ok"]

\* Err(format!(text, ...)): the paths and the cause the message is built of.
Err(text, paths, cause) ==
    [NoRet EXCEPT !.kind = "err", !.text = text, !.paths = paths, !.cause = cause]

\* OptionIterator { iter }, collected: with no inner iterator next() is
\* None at once.
OptionIterator(iter) ==
    [NoRet EXCEPT !.kind = "iter", !.some = iter.some,
                  !.items = IF iter.some THEN iter.v ELSE <<>>]

\* logger::warn("Unable to find function reference for {} in {}")
Warn(func_name, file_path) == [level |-> "warn", func |-> func_name, path |-> file_path]

\* logger::err("Failed to to find {} index record")
LogErr(path) == [level |-> "error", func |-> <<>>, path |-> path]

\* utils::get_absolute_path: the path in absolute form, "." and ".." resolved.
RECURSIVE Normalize(_, _)
Normalize(done, comps) ==
    IF comps = <<>> THEN done
    ELSE IF Head(comps) = <<".">> THEN Normalize(done, Tail(comps))
    ELSE IF Head(comps) = <<".", ".">> THEN Normalize(Parent(done), Tail(comps))
    ELSE Normalize(Append(done, Head(comps)), Tail(comps))

GetAbsolutePath(file_path) == SomePath(Normalize(<<>>, file_path))

\* content.iter().skip(offset + 1)
SkipOneMore(content, offset) == SubSeq(content, offset + 2, Len(content))

\* content.iter().skip(offset)
Skip(content, offset) == SubSeq(content, offset + 1, Len(content))

\* Index::find_local_fn_offset
FindLocalFnOffset(index, func_name) ==
    IF func_name \in DOMAIN index.fn_offsets
    THEN Some(index.fn_offsets[func_name])
    ELSE None

\* The local lookup made only when the name is not imported.
LocalLookupAfterImports(index, func_name, object) ==
    IF object.some \/ func_name \in DOMAIN index.fn_imports THEN None
    ELSE FindLocalFnOffset(index, func_name)

\* iter_fn_content, "try local functions": the offset, without a qualifier.
LocalLookup(index, func_name, object) ==
    IF object.some THEN None ELSE FindLocalFnOffset(index, func_name)

\* The import key taken to be the function name, qualifier or not.
ImportKeyIgnoringObject(func_name, object) == func_name

\* iter_fn_content, "try imported functions": the key looked up in fn_imports.
ImportKey(func_name, object) == IF object.some THEN object.v ELSE func_name

\* The name looked up in the target file taken to be the import key.
TargetNameIsImportKey(func_name, object) == ImportKey(func_name, object)

\* The name looked up in the imported file's fn_offsets: func_name.
TargetName(func_name, object) == func_name

\* iter_fn_content past the local lookup: the import key resolved to a file,
\* and func_name looked up there.
ImportedLookup(cat, index, file_path, func_name, object) ==
    Bind(ImportKey(func_name, object), LAMBDA import :
        IF import \notin DOMAIN index.fn_imports
        THEN [ret |-> OptionIterator(None), emitted |-> <<Warn(func_name, file_path)>>,
              proc |-> "running"]
        ELSE IF index.fn_imports[import] \notin DOMAIN cat
        THEN [ret |-> NoRet, emitted |-> <<LogErr(index.fn_imports[import])>>,
              proc |-> "exited"]
        ELSE
        Bind(cat[index.fn_imports[import]], LAMBDA target :
        Bind(FindLocalFnOffset(target, TargetName(func_name, object)), LAMBDA offset :
            IF ~offset.some
            THEN [ret |-> NoRet, emitted |-> <<>>, proc |-> "panicked"]
            ELSE [ret |-> OptionIterator(Some(Skip(target.content, offset.v))),
                  emitted |-> <<>>, proc |-> "running"])))

\* Indexer::iter_fn_content: what it returns, what it logs, and how the
\* process goes on.
IterFnContent(cat, file_path, func_name, object) ==
    Bind(GetAbsolutePath(file_path), LAMBDA abs :
        IF ~abs.ok THEN [ret |-> NoRet, emitted |-> <<>>, proc |-> "panicked"]
        ELSE IF abs.path \notin DOMAIN cat
        THEN [ret |-> NoRet, emitted |-> <<LogErr(abs.path)>>, proc |-> "exited"]
        ELSE
        Bind(LocalLookup(cat[abs.path], func_name, object), LAMBDA local :
            IF local.some
            THEN [ret |-> OptionIterator(Some(Skip(cat[abs.path].content, local.v))),
                  emitted |-> <<>>, proc |-> "running"]
            ELSE ImportedLookup(cat, cat[abs.path], file_path, func_name, object)))

(* ------------------------------- actions ------------------------------ *)

NoReq == [file |-> <<>>, func |-> <<>>, object |-> None]

NoPass == [ran |-> FALSE, stored |-> {}, failed |-> {}]

\* a.js named through its directory: /proj/./a.js
FileADotted == <<ProjName, <<".">>, <<"a", ".", "js">>>>

QueryPaths == {FileA, FileB, FileLatest, FileInTests, FileADotted}

FuncNames == {<<"foo">>, <<"bar">>}

Objects == {None} \cup {Some(n) : n \in FuncNames}

StartFs(a, b) ==
    [p \in FileUniverse |->
        IF p = FileA THEN File(a)
        ELSE IF p = FileB THEN b
        ELSE IF p = FileLatest THEN File(LibContent)
        ELSE NoFile]

\* Indexer::new over a project of a.js, latest.js and a b.js out of bs.
InitOver(bs) ==
    /\ fs \in {StartFs(a, b) : a \in Contents, b \in bs}
    /\ rootPresent = TRUE
    /\ fsChanges = 0
    /\ catalog = EmptyMap
    /\ proc = "running"
    /\ last = "init"
    /\ req = NoReq
    /\ ret = NoRet
    /\ emitted = <<>>
    /\ pass = NoPass

Init == InitOver({NoFile, File(LibContent)})

\* Indexer::index on a project directory that does not exist.
IndexNoRoot ==
    /\ proc = "running"
    /\ ~PathExists(fs, rootPresent, ProjectDir)
    /\ ret' = Err("no such file or directory exists for", {ProjectDir}, "")
    /\ last' = "index"
    /\ req' = NoReq
    /\ emitted' = <<>>
    /\ pass' = NoPass
    /\ UNCHANGED <<fs, rootPresent, fsChanges, catalog, proc>>

\* What index() returns after a traversal that ended without an error.
AfterWalk(cat) ==
    IF DOMAIN cat = {}
    THEN Err("no files were found in", {ProjectDir}, "")
    ELSE Ok

\* Indexer::index: the walk, index_file on every file it yields, and the
\* check that follows.
IndexWalk ==
    /\ proc = "running"
    /\ PathExists(fs, rootPresent, ProjectDir)
    /\ \E indexed \in {Indexed(catalog, fs, rootPresent)} :
          \E r \in {IndexFiles(catalog, indexed, order, 1) : order \in WalkOrders(fs)} :
              /\ catalog' = r.cat
              /\ proc' = IF r.status = "panic" THEN "panicked" ELSE "running"
              /\ ret' = CASE r.status = "panic" -> NoRet
                          [] r.status = "err" -> Err("failed to parse file", {}, r.cause)
                          [] OTHER -> AfterWalk(r.cat)
              /\ pass' = [ran |-> TRUE, stored |-> r.stored,
                          failed |-> r.failed]
    /\ last' = "index"
    /\ req' = NoReq
    /\ emitted' = <<>>
    /\ UNCHANGED <<fs, rootPresent, fsChanges>>

\* Indexer::iter_fn_content(file_path, func_name, object)
Query ==
    /\ proc = "running"
    /\ \E file_path \in QueryPaths, func_name \in FuncNames, object \in Objects :
          \E r \in {IterFnContent(catalog, file_path, func_name, object)} :
              /\ req' = [file |-> file_path, func |-> func_name, object |-> object]
              /\ ret' = r.ret
              /\ emitted' = r.emitted
              /\ proc' = r.proc
    /\ last' = "query"
    /\ pass' = NoPass
    /\ UNCHANGED <<fs, rootPresent, fsChanges, catalog>>

\* What every step of the environment does to the record of the last call.
EnvStep ==
    /\ proc = "running"
    /\ fsChanges < MaxFsChanges
    /\ fsChanges' = fsChanges + 1
    /\ last' = "env"
    /\ req' = NoReq
    /\ ret' = NoRet
    /\ emitted' = <<>>
    /\ pass' = NoPass
    /\ UNCHANGED <<catalog, proc>>

\* A file is created or rewritten, with the directories above it.
WriteFile ==
    /\ EnvStep
    /\ \E p \in FileUniverse :
          /\ fs[p] # File(WrittenContent)
          /\ fs' = [fs EXCEPT ![p] = File(WrittenContent)]
    /\ rootPresent' = TRUE

\* A file is deleted.
RemoveFile ==
    /\ EnvStep
    /\ \E p \in Present : fs' = [fs EXCEPT ![p] = NoFile]
    /\ UNCHANGED rootPresent

\* A file loses its read permission.
ProtectFile ==
    /\ EnvStep
    /\ \E p \in Present :
          /\ fs[p].readable
          /\ fs' = [fs EXCEPT ![p].readable = FALSE]
    /\ UNCHANGED rootPresent

\* The project directory is deleted with all it holds.
RemoveProject ==
    /\ EnvStep
    /\ rootPresent
    /\ fs' = [p \in FileUniverse |-> NoFile]
    /\ rootPresent' = FALSE

Next ==
    \/ IndexNoRoot
    \/ IndexWalk
    \/ Query
    \/ WriteFile
    \/ RemoveFile
    \/ ProtectFile
    \/ RemoveProject

Spec == Init /\ [][Next]_vars

\* The calls of index() and the changes of the file system between them.
\* iter_fn_content takes &self: a query leaves the catalog as it finds it,
\* so the catalogs of these behaviours are the catalogs of Spec.
NextCatalog ==
    \/ IndexNoRoot
    \/ IndexWalk
    \/ WriteFile
    \/ RemoveFile
    \/ ProtectFile
    \/ RemoveProject

\* The project starts without b.js, which the environment can create.
InitCatalog == InitOver({NoFile})

SpecCatalog == InitCatalog /\ [][NextCatalog]_vars

\* The calls of index() and iter_fn_content on a project that does not
\* change.
NextLookup ==
    \/ IndexWalk
    \/ Query

SpecLookup == Init /\ [][NextLookup]_vars

(* ----------------------------- properties ----------------------------- *)

Range(seq) == {seq[i] : i \in 1..Len(seq)}

\* The file the last query named, in absolute form.
Queried == GetAbsolutePath(req.file).path

\* The last step was a query of an indexed file.
QueriedIndexed == last = "query" /\ Queried \in DOMAIN catalog

\* The last query was answered by the local lookup: no qualifier, and the
\* name is one of the queried file's local functions.
AnsweredLocally ==
    /\ QueriedIndexed
    /\ ~req.object.some
    /\ req.func \in DOMAIN catalog[Queried].fn_offsets

\* The import key of the last query: the qualifier when one is given.
QueriedKey == IF req.object.some THEN req.object.v ELSE req.func

\* The last query went on to the imports of the queried file.
WentToImports == QueriedIndexed /\ ~AnsweredLocally

\* The lines of content from the zero-based line offset on.
From(content, offset) == SubSeq(content, offset + 1, Len(content))

\* Line defines name f: a definition pattern matches it and captures f.
Defines(line, f) ==
    \/ FreCaptures(line).ok /\ FreCaptures(line).name = f
    \/ ~FreCaptures(line).ok /\ AfreCaptures(line).ok /\ AfreCaptures(line).name = f

\* Line matches a definition pattern.
IsDefinition(line) == FreCaptures(line).ok \/ AfreCaptures(line).ok

\* The name and place rule of the walk, stated of a whole path: the file's
\* name ends in .js, does not start with "." and does not contain "test",
\* and no component below the project directory contains "node_modules".
Eligible(p) ==
    /\ EndsWithDotJs(p[Len(p)])
    /\ ~StartsWithDot(p[Len(p)])
    /\ ~Contains(p[Len(p)], "test")
    /\ \A i \in 2..Len(p) : ~Contains(p[i], "node_modules")

C2_LocalLookupFirst ==
    AnsweredLocally =>
        /\ proc = "running"
        /\ ret.kind = "iter" /\ ret.some
        /\ ret.items = From(catalog[Queried].content,
                            catalog[Queried].fn_offsets[req.func])
        /\ emitted = <<>>

\* C2 witness: such a query where the file also imports the name, from a
\* file that is indexed and defines it too.
C2_Witness ==
    /\ AnsweredLocally
    /\ req.func \in DOMAIN catalog[Queried].fn_imports
    /\ catalog[Queried].fn_imports[req.func] \in DOMAIN catalog
    /\ catalog[Queried].fn_imports[req.func] # Queried
    /\ ret.some

\* C3: a query of an indexed file that is not answered locally and whose
\* import key the file does not import returns the empty sequence, logs
\* exactly one warning and is not fatal.
C3_UnresolvedKeyIsEmptyAndWarned ==
    (WentToImports /\ QueriedKey \notin DOMAIN catalog[Queried].fn_imports) =>
        /\ proc = "running"
        /\ ret.kind = "iter" /\ ret.items = <<>>
        /\ Len(emitted) = 1 /\ emitted[1].level = "warn"

\* C3 witness: a query with a qualifier the file does not import, for a
\* name the file does import.
C3_Witness ==
    /\ WentToImports
    /\ QueriedKey \notin DOMAIN catalog[Queried].fn_imports
    /\ req.object.some
    /\ req.func \in DOMAIN catalog[Queried].fn_imports
    /\ ret.kind = "iter" /\ ret.items = <<>>

\* C4: a query without qualifier for a name recorded in the queried file's
\* local functions is not fatal and returns a non-empty sequence: it starts
\* with a trimmed line that defines the name, no later line defines it, and
\* it runs to the last line of the file.
C4_QueryReturnsFromDefinition ==
    AnsweredLocally =>
        /\ proc = "running"
        /\ ret.kind = "iter" /\ ret.items # <<>>
        /\ Defines(ret.items[1], req.func)
        /\ Trim(ret.items[1]) = ret.items[1]
        /\ \A j \in 2..Len(ret.items) : ~Defines(ret.items[j], req.func)
        /\ \E k \in 1..Len(catalog[Queried].content) :
              ret.items = SubSeq(catalog[Queried].content, k, Len(catalog[Queried].content))

\* C4 witness: such a query for a name defined on two lines of the file, of
\* which the sequence returned starts with the second.
C4_Witness ==
    /\ AnsweredLocally
    /\ ret.items # <<>>
    /\ Len(ret.items) < Len(catalog[Queried].content)
    /\ Defines(catalog[Queried].content[1], req.func)

\* The module path of the last import statement of content that names the
\* identifier, as the statements are matched in the joined content.
LastJump(content, name) ==
    LET pairs == FindFnImports(content)
        k == CHOOSE i \in 1..Len(pairs) :
                /\ pairs[i].name = name
                /\ \A j \in (i + 1)..Len(pairs) : pairs[j].name # name
    IN  pairs[k].jump

\* <directory of file>/<module path>.js in canonical form, whether or not
\* the path exists.
CandidatePath(file, jump) ==
    Normalize(IF Head(jump) = "/" THEN <<>> ELSE Parent(file),
              SplitOn(jump \o <<".", "js">>, "/"))

\* C5, as the specification states it: index() does not fail over an import whose target does
\* not exist, and after it every identifier of every import statement of
\* an indexed file is a key of the file's imports, mapped to the canonical
\* form of <directory of the file>/<module path>.js (of the last statement
\* that names the identifier).
C5_Claimed ==
    (last = "index" /\ pass.ran) =>
        /\ proc = "running"
        /\ \A f \in DOMAIN catalog :
              \A name \in {pr.name : pr \in Range(FindFnImports(catalog[f].content))} :
                 /\ name \in DOMAIN catalog[f].fn_imports
                 /\ catalog[f].fn_imports[name] =
                       CandidatePath(f, LastJump(catalog[f].content, name))

\* C6, as the specification states it: an index() that fails on a file it cannot read, after it
\* has walked other files, returns an error that names the failing file, and
\* the catalog holds no record the call added or replaced.
C6_Claimed ==
    [][(last' = "index" /\ ret'.text = "failed to parse file" /\ pass'.stored # {}) =>
          /\ pass'.failed \subseteq ret'.paths
          /\ \A f \in pass'.stored : f \in DOMAIN catalog /\ catalog'[f] = catalog[f]]_vars

\* C7, as the specification states it: an index() of an existing project directory whose
\* traversal runs to its end returns the empty-project error when the
\* traversal indexed no file, and success only when it indexed one.
C7_Claimed ==
    (last = "index" /\ pass.ran /\ pass.failed = {} /\ proc = "running") =>
        /\ pass.stored = {} => ret.text = "no files were found in"
        /\ ret.kind = "ok" => pass.stored # {}

\* C8: a query that goes on to the imports with an import key the queried
\* file imports looks the function name up in the file the key is mapped
\* to: content of that file from the name's offset when it defines the
\* name, the process exited after one error log entry when the catalog does
\* not hold that file, and a fatal end when the file does not define the
\* name; never an empty sequence, never a warning.
C8_ImportedLookup ==
    (WentToImports /\ QueriedKey \in DOMAIN catalog[Queried].fn_imports) =>
        LET t == catalog[Queried].fn_imports[QueriedKey]
        IN  /\ \A i \in 1..Len(emitted) : emitted[i].level # "warn"
            /\ t \notin DOMAIN catalog =>
                  /\ proc = "exited"
                  /\ Len(emitted) = 1 /\ emitted[1].level = "error"
                  /\ ret.kind = "none"
            /\ (t \in DOMAIN catalog /\ req.func \notin DOMAIN catalog[t].fn_offsets) =>
                  /\ proc # "running"
                  /\ ret.kind = "none"
            /\ (t \in DOMAIN catalog /\ req.func \in DOMAIN catalog[t].fn_offsets) =>
                  /\ proc = "running"
                  /\ ret.kind = "iter" /\ ret.some
                  /\ ret.items = From(catalog[t].content, catalog[t].fn_offsets[req.func])
                  /\ emitted = <<>>

\* C8 witness: a query with a qualifier other than the function name, mapped
\* to an indexed file that defines the function name and not the qualifier.
C8_Witness ==
    /\ WentToImports
    /\ req.object.some /\ req.object.v # req.func
    /\ QueriedKey \in DOMAIN catalog[Queried].fn_imports
    /\ catalog[Queried].fn_imports[QueriedKey] \in DOMAIN catalog
    /\ QueriedKey \notin DOMAIN catalog[catalog[Queried].fn_imports[QueriedKey]].fn_offsets
    /\ ret.kind = "iter" /\ ret.items # <<>>

\* C9: in every record of the catalog the local functions are the names the
\* lines of the content define, each mapped to the zero-based number of
\* the last line that defines it, one name a line; and the content of a
\* file the last index() stored is the file's lines, trimmed.
C9_OffsetsAreLastDefinitions ==
    \A f \in DOMAIN catalog :
        LET c == catalog[f].content
            off == catalog[f].fn_offsets
        IN  /\ \A i \in 1..Len(c) : \A name \in {FreCaptures(c[i]).name, AfreCaptures(c[i]).name} :
                  Defines(c[i], name) =>
                     /\ name \in DOMAIN off
                     /\ Defines(c[off[name] + 1], name)
                     /\ off[name] + 1 >= i
            /\ \A name \in DOMAIN off :
                  /\ off[name] + 1 \in 1..Len(c)
                  /\ Defines(c[off[name] + 1], name)
            /\ Cardinality(DOMAIN off) <= Cardinality({i \in 1..Len(c) : IsDefinition(c[i])})
            /\ (last = "index" /\ f \in pass.stored) =>
                  /\ Len(c) = Len(fs[f].lines)
                  /\ \A i \in 1..Len(c) : c[i] = Trim(fs[f].lines[i])

\* C9 witness: an indexed file of which two lines define the same name,
\* mapped to the second.
C9_Witness ==
    \E f \in DOMAIN catalog :
        /\ Len(catalog[f].content) >= 2
        /\ \E name \in DOMAIN catalog[f].fn_offsets :
              /\ Defines(catalog[f].content[1], name)
              /\ Defines(catalog[f].content[2], name)
              /\ catalog[f].fn_offsets[name] = 1

\* C10: every offset a record of the catalog holds is less than the number
\* of lines of the record's content.
C10_OffsetsWithinContent ==
    \A f \in DOMAIN catalog :
        \A name \in DOMAIN catalog[f].fn_offsets :
            catalog[f].fn_offsets[name] < Len(catalog[f].content)

\* C10 witness: an index() that follows a change of the file system, after
\* which a record holds an offset of its last line.
C10_Witness ==
    /\ last = "index" /\ fsChanges >= 1
    /\ \E f \in DOMAIN catalog :
          \E name \in DOMAIN catalog[f].fn_offsets :
              catalog[f].fn_offsets[name] = Len(catalog[f].content) - 1

====
